---- MODULE Spec2Model ----
(***************************************************************************)
(* arc-cli: one invocation of src/main.rs.  The state is the position of   *)
(* main, the parsed arguments, the chained future `rg` / `conn_req` /      *)
(* `info_req` as driven by tokio::run, and what the process has emitted.   *)
(***************************************************************************)
EXTENDS Integers, Sequences, FiniteSets, TLC

(* ---------------------------------------------------------------- bounds *)
MaxAddrs == 2        \* longest sequence a name resolution returns
MaxHash == 2         \* longest block hash in a GetInfo response

(* ------------------------------------------------------- socket addresses *)
V4A == [fam |-> "v4", ip |-> <<127, 0, 0, 1>>, port |-> 4225]
V4B == [fam |-> "v4", ip |-> <<10, 0, 0, 2>>, port |-> 65535]
V6A == [fam |-> "v6", ip |-> <<0, 0, 0, 0, 0, 0, 0, 1>>, port |-> 4225]
AddrPool == {V4A, V4B, V6A}

\* Option<T> is a sequence of length at most one
None == <<>>
Some(x) == <<x>>

\* io::Result of a resolution: the addresses, or an error
ResOk(as) == [ok |-> TRUE, addrs |-> as]
ResErr == [ok |-> FALSE, addrs |-> <<>>]

SeqsUpTo(S, n) == UNION {[1..k -> S] : k \in 0..n}

\* what the resolution service may answer to one lookup
Answers == {ResErr} \cup {ResOk(as) : as \in SeqsUpTo(AddrPool, MaxAddrs)}

(* --------------------------------------------------------- command line *)
Absent == "<absent>"
NoAddress == "<none>"
DefaultUri == "http://localhost:4225"
UriStrings == {"http://node.example:4225", "node.example:4225", "/status", "http://[::1"}
AddressStrings == {"peer.example", "127.0.0.1:4225", "[::1]:4225", "peer.example:4225"}
Subcommands == {"", "connect", "disconnect", "getinfo"}

\* s.parse::<http::Uri>(): the parts of the URI ("" for a missing part), or
\* an error
ParseUri(s) ==
    CASE s = "http://localhost:4225" ->
           [ok |-> TRUE, scheme |-> "http", authority |-> "localhost:4225"]
      [] s = "http://node.example:4225" ->
           [ok |-> TRUE, scheme |-> "http", authority |-> "node.example:4225"]
      [] s = "node.example:4225" ->
           [ok |-> TRUE, scheme |-> "", authority |-> "node.example:4225"]
      [] s = "/status" ->
           [ok |-> TRUE, scheme |-> "", authority |-> ""]
      [] OTHER -> [ok |-> FALSE, scheme |-> "", authority |-> ""]

\* <str as ToSocketAddrs>::to_socket_addrs: a literal socket address is
\* parsed without a lookup, a string without a port is an error, and a
\* host:port string is handed to the resolution service, whose answer is
\* `answer`
NeedsLookup(s) == s = "peer.example:4225"

to_socket_addrs(s, answer) ==
    CASE s = "127.0.0.1:4225" -> ResOk(<<V4A>>)
      [] s = "[::1]:4225" -> ResOk(<<V6A>>)
      [] s = "peer.example:4225" -> answer
      [] OTHER -> ResErr

\* is_address given the result r of its to_socket_addrs call
is_address(r) ==
    IF ~r.ok THEN "cannot parse address"
    ELSE IF Len(r.addrs) > 0 THEN "Ok" ELSE "Could not resolve address"

is_uri(s) == IF ParseUri(s).ok THEN "Ok" ELSE "Invalid URI"

RECURSIVE FindLast(_, _)
FindLast(as, i) ==
    IF i > Len(as) THEN None
    ELSE IF FindLast(as, i + 1) # None THEN FindLast(as, i + 1)
    ELSE IF as[i].fam = "v4" THEN Some(as[i]) ELSE None

\* Iterator::find(|s| s.is_ipv4()) from position i
RECURSIVE Find(_, _)
Find(as, i) ==
    IF i > Len(as) THEN None
    ELSE IF as[i].fam = "v4" THEN Some(as[i]) ELSE Find(as, i + 1)

find_ipv4_mut(r) ==
    [panic |-> ~r.ok, found |-> IF Len(r.addrs) > 0 THEN Some(r.addrs[1]) ELSE None]

\* find_ipv4 given the result r of its to_socket_addrs call: unwrap, then find
find_ipv4(r) == [panic |-> ~r.ok, found |-> Find(r.addrs, 1)]

try_from_uri_mut(u) == u.authority # ""

\* Destination::try_from_uri: the URI needs an authority and a scheme
try_from_uri(u) == u.authority # "" /\ u.scheme # ""

\* tower_request_modifier set_origin(uri).build(conn): needs scheme and authority
build_origin(u) == u.scheme # "" /\ u.authority # ""

(* ------------------------------------------------------------- rendering *)
HexDigit(n) ==
    <<"0", "1", "2", "3", "4", "5", "6", "7", "8", "9", "a", "b", "c", "d", "e", "f">>[n + 1]

Format02x_mut(b) == IF b < 16 THEN HexDigit(b) ELSE HexDigit(b \div 16) \o HexDigit(b % 16)

\* format!("{:02x}", b)
Format02x(b) == HexDigit(b \div 16) \o HexDigit(b % 16)

RECURSIVE HexFold(_, _, _)
HexFold(bytes, i, acc) ==
    IF i > Len(bytes) THEN acc ELSE HexFold(bytes, i + 1, acc \o Format02x(bytes[i]))

Hex(bytes) == HexFold(bytes, 1, "")

\* format!("{}", socket_addr.ip())
FormatIp(ip) ==
    IF Len(ip) # 4 THEN (IF ip = V6A.ip THEN "::1" ELSE "v6")
    ELSE ToString(ip[1]) \o "." \o ToString(ip[2]) \o "." \o ToString(ip[3]) \o "." \o ToString(ip[4])

Bytes == {0, 10, 255}
Responses ==
    [implementation : {"node-x"}, protocol_version : {3},
     best_block_hash : SeqsUpTo(Bytes, MaxHash), genesis_block_hash : {<<190, 239>>}]

Method_mut(sub) == IF sub = "getinfo" THEN "GetInfo" ELSE "ConnectPeer"

\* the facade method each arm of the subcommand match calls
Method(sub) ==
    CASE sub = "connect" -> "ConnectPeer"
      [] sub = "disconnect" -> "DisconnectPeer"
      [] sub = "getinfo" -> "GetInfo"

PortAsU32_mut(port) == port % 256

\* `port() as u32`: zero extension keeps the 16 bits of the port
PortAsU32(port) == port % 65536

\* the request each arm builds
BuildRequest(sub, sa) ==
    IF sub = "getinfo" THEN [method |-> Method(sub), peer |-> None]
    ELSE [method |-> Method(sub),
          peer |-> Some([ip |-> FormatIp(sa[1].ip), port |-> PortAsU32(sa[1].port)])]

RpcErrMsg_mut(sub) == <<>>

\* the map_err closure of each arm
RpcErrMsg(sub) ==
    IF sub = "getinfo" THEN <<"Error retrieving information">>
    ELSE <<"Could not connect to peer">>

\* map_err(...).and_then(...): the next stage runs only on Ok
AndThen_skip(result, next) == next

AndThen_retry(result, next) == IF result = "Ok" THEN next ELSE "run"

AndThen_hang(result, next) == IF result = "Ok" THEN next ELSE "stalled"

AndThen(result, next) == IF result = "Ok" THEN next ELSE "done"

Running == 0 - 1     \* exitCode while the process runs

(* ------------------------------------------------------------ shadow run *)
\* The disconnect arm (lines 156-179) as a function of the shadow's state;
\* the shadow is run next to a connect invocation, on the same arguments,
\* resolution results and connection/RPC outcomes.
TwinInit ==
    [pc |-> "get_matches", socket_addr |-> None, calls |-> <<>>, stdout |-> <<>>,
     stderr |-> <<>>, exitCode |-> Running, outcome |-> "running"]

\* lines 157-164, given the result r of find_ipv4's to_socket_addrs call
DisconnectMatch(t, r) ==
    IF find_ipv4(r).panic
    THEN [t EXCEPT !.pc = "done", !.exitCode = 101, !.outcome = "Panic",
                   !.stderr = Append(t.stderr, "panicked at unwrap: to_socket_addrs")]
    ELSE IF find_ipv4(r).found = None
    THEN [t EXCEPT !.pc = "done", !.exitCode = 0, !.outcome = "UnresolvableAddress",
                   !.stderr = Append(t.stderr, "Could not resolve to ipv4")]
    ELSE [t EXCEPT !.pc = "run", !.socket_addr = find_ipv4(r).found]

DisconnectIssue_mut(t) ==
    [t EXCEPT !.pc = "calling",
              !.calls = Append(t.calls,
                  [method |-> "DisconnectPeer",
                   peer |-> Some([ip |-> FormatIp(t.socket_addr[1].ip),
                                  port |-> 4225])])]

\* lines 165-174
DisconnectIssue(t) ==
    [t EXCEPT !.pc = "calling",
              !.calls = Append(t.calls,
                  [method |-> "DisconnectPeer",
                   peer |-> Some([ip |-> FormatIp(t.socket_addr[1].ip),
                                  port |-> PortAsU32(t.socket_addr[1].port)])])]

\* lines 175-178, given how the round trip settled
DisconnectSettle(t, result) ==
    IF result = "Ok"
    THEN [t EXCEPT !.pc = "done", !.exitCode = 0, !.outcome = "Success"]
    ELSE [t EXCEPT !.pc = "done", !.exitCode = 0, !.outcome = "RpcCallFailed",
                   !.stderr = Append(t.stderr, "Could not connect to peer")]

(* ----------------------------------------------------------------- state *)
VARIABLES
    pc,            \* position of main / of the future under tokio::run
    uriArg,        \* value given to -a/--address, or Absent
    completions,   \* --completions given
    subcommand,    \* subcommand given, "" when none
    addressArg,    \* <address> of connect/disconnect, NoAddress otherwise
    lookups,       \* lookups handed to the resolution service so far
    validated,     \* what is_address's to_socket_addrs returned
    addrs,         \* what find_ipv4's to_socket_addrs returned
    socket_addr,   \* main's socket_addr
    madeService,   \* make_client.make_service(dst) was called (future built)
    connAttempts,  \* connection attempts started
    connResult,    \* how the connection attempt settled
    clientReady,   \* the client reported ready
    calls,         \* requests issued
    rpcResult,     \* outcome of the round trip
    response,      \* the GetInfo response received, if any
    stdout,        \* what was printed on the output stream
    stderr,        \* messages on the error stream
    exitCode,      \* process exit status, Running while running
    outcome,       \* how the invocation ended
    twin           \* shadow run: the disconnect arm on a connect invocation's inputs

vars == <<pc, uriArg, completions, subcommand, addressArg, lookups, validated,
          addrs, socket_addr, madeService, connAttempts, connResult, clientReady,
          calls, rpcResult, response, stdout, stderr, exitCode, outcome, twin>>

args == <<uriArg, completions, subcommand, addressArg>>

\* matches.value_of("uri"): the default_value stands in for an absent option
uri == IF uriArg = Absent THEN DefaultUri ELSE uriArg

HasAddress == subcommand \in {"connect", "disconnect"}

Init ==
    /\ pc = "get_matches"
    /\ uriArg \in {Absent} \cup UriStrings
    /\ completions \in BOOLEAN
    /\ subcommand \in Subcommands
    /\ addressArg \in (IF HasAddress THEN AddressStrings ELSE {NoAddress})
    /\ lookups = 0
    /\ validated = None
    /\ addrs = None
    /\ socket_addr = None
    /\ madeService = FALSE
    /\ connAttempts = 0
    /\ connResult = ""
    /\ clientReady = FALSE
    /\ calls = <<>>
    /\ rpcResult = ""
    /\ response = None
    /\ stdout = <<>>
    /\ stderr = <<>>
    /\ exitCode = Running
    /\ outcome = "running"
    /\ twin = TwinInit

\* the process ends with status `code`
Exit(code, how) ==
    /\ pc' = "done"
    /\ exitCode' = code
    /\ outcome' = how

\* clap reports a parse error and exits with status 1
ClapError(msg, how) ==
    /\ stderr' = Append(stderr, msg)
    /\ Exit(1, how)

\* main returns: the process ends with status 0
Return(how) == Exit(0, how)

\* an unwrap on an error value aborts the process
Panic(msg) ==
    /\ stderr' = Append(stderr, msg)
    /\ Exit(101, "Panic")

net == <<madeService, connAttempts, connResult, clientReady, calls, rpcResult, response>>

\* lines 95-129 are the same code for both arms: the shadow takes the step
\* the invocation takes
TwinShared ==
    twin' = IF subcommand = "connect"
            THEN [twin EXCEPT !.pc = pc', !.stdout = stdout', !.stderr = stderr',
                              !.exitCode = exitCode', !.outcome = outcome']
            ELSE twin

(* --------------------------------------------------------------- actions *)
\* line 95: build_cli().get_matches().  clap runs the validators is_uri and
\* is_address and checks conflicts_with; main.rs does not fix their order
\* (clap 2.3x validates the subcommand's matches before its parent's, so
\* subFirst), nor whether a defaulted uri counts for conflicts_with.
GetMatches ==
    /\ pc = "get_matches"
    /\ \E answer \in Answers, subFirst \in BOOLEAN, defaultConflicts \in BOOLEAN :
         LET uriErr == is_uri(uri) # "Ok"
             runsIsAddress == HasAddress /\ (subFirst \/ ~uriErr)
             r == to_socket_addrs(addressArg, answer)
             addrErr == runsIsAddress /\ is_address(r) # "Ok"
             conflict == completions /\ (uriArg # Absent \/ defaultConflicts)
         IN /\ validated' = IF runsIsAddress THEN Some(r) ELSE validated
            /\ lookups' = IF runsIsAddress /\ NeedsLookup(addressArg)
                          THEN lookups + 1 ELSE lookups
            /\ IF uriErr /\ ~(subFirst /\ (addrErr \/ conflict))
               THEN ClapError(is_uri(uri), "InvalidEndpoint")
               ELSE IF addrErr
               THEN ClapError(is_address(r), "UnresolvableAddress")
               ELSE IF conflict
               THEN ClapError("The argument cannot be used with", "UsageError")
               ELSE /\ pc' = "parsed"
                    /\ UNCHANGED <<stderr, exitCode, outcome>>
    /\ UNCHANGED <<args, addrs, socket_addr, net, stdout>>
    /\ TwinShared

\* lines 97-101: the completion script is written and main returns
Completions ==
    /\ pc = "parsed"
    /\ completions
    /\ stdout' = Append(stdout, [kind |-> "completions", implementation |-> "", version |-> "",
                                 best |-> "", genesis |-> ""])
    /\ Return("Completions")
    /\ UNCHANGED <<args, lookups, validated, addrs, socket_addr, net, stderr>>
    /\ TwinShared

\* lines 103-110: parse the uri again and make the Destination
TryFromUri ==
    /\ pc = "parsed"
    /\ ~completions
    /\ IF ~ParseUri(uri).ok
       THEN Panic("panicked at unwrap: InvalidUri")
       ELSE IF ~try_from_uri(ParseUri(uri))
       THEN /\ stderr' = Append(stderr, "Could not connect to")
            /\ Return("ConnectionFailed")
       ELSE /\ pc' = "make_client"
            /\ UNCHANGED <<stderr, exitCode, outcome>>
    /\ UNCHANGED <<args, lookups, validated, addrs, socket_addr, net, stdout>>
    /\ TwinShared

\* lines 111-129: the connector, the settings and the future rg are built;
\* a future does nothing until it is polled
MakeService ==
    /\ pc = "make_client"
    /\ madeService' = TRUE
    /\ pc' = "match"
    /\ UNCHANGED <<args, lookups, validated, addrs, socket_addr, connAttempts,
                   connResult, clientReady, calls, rpcResult, response, stdout,
                   stderr,
                   exitCode, outcome>>
    /\ TwinShared

\* lines 133-140 and 157-164: resolve the address again, keep the first IPv4
PeerArm ==
    /\ \E answer \in Answers :
         LET r == to_socket_addrs(addressArg, answer)
             f == find_ipv4(r)
         IN /\ addrs' = Some(r)
            /\ lookups' = IF NeedsLookup(addressArg) THEN lookups + 1 ELSE lookups
            /\ IF f.panic
               THEN /\ Panic("panicked at unwrap: to_socket_addrs")
                    /\ UNCHANGED socket_addr
               ELSE IF f.found = None
               THEN /\ stderr' = Append(stderr, "Could not resolve to ipv4")
                    /\ Return("UnresolvableAddress")
                    /\ UNCHANGED socket_addr
               ELSE /\ socket_addr' = f.found
                    /\ pc' = "run"
                    /\ UNCHANGED <<stderr, exitCode, outcome>>
    /\ UNCHANGED <<args, validated, net, stdout>>

\* lines 132-140
MatchConnect ==
    /\ pc = "match"
    /\ subcommand = "connect"
    /\ PeerArm
    /\ twin' = DisconnectMatch(twin, addrs'[1])

\* lines 156-164
MatchDisconnect ==
    /\ pc = "match"
    /\ subcommand = "disconnect"
    /\ PeerArm
    /\ UNCHANGED twin

\* line 180
MatchGetInfo ==
    /\ pc = "match"
    /\ subcommand = "getinfo"
    /\ pc' = "run"
    /\ UNCHANGED <<args, lookups, validated, addrs, socket_addr, net, stdout,
                   stderr, exitCode, outcome>>
    /\ UNCHANGED twin

MatchNone_run ==
    /\ pc = "match"
    /\ subcommand = ""
    /\ pc' = "run"
    /\ UNCHANGED <<args, lookups, validated, addrs, socket_addr, net, stdout,
                   stderr, exitCode, outcome>>
    /\ UNCHANGED twin

\* line 219: no subcommand, rg is dropped without being polled
MatchNone ==
    /\ pc = "match"
    /\ subcommand = ""
    /\ Return("NoOp")
    /\ UNCHANGED <<args, lookups, validated, addrs, socket_addr, net, stdout, stderr>>
    /\ UNCHANGED twin

\* tokio::run polls the future: the connection attempt of make_service starts
RunConnect ==
    /\ pc = "run"
    /\ connAttempts' = connAttempts + 1
    /\ pc' = "connecting"
    /\ UNCHANGED <<args, lookups, validated, addrs, socket_addr, madeService,
                   connResult, clientReady, calls, rpcResult, response, stdout,
                   stderr,
                   exitCode, outcome>>
    /\ TwinShared

\* lines 114-119: the attempt settles; DNS/TCP and HTTP/2 handshake errors
\* both arrive as the error of make_service
ConnectSettle ==
    /\ pc = "connecting"
    /\ \E result \in {"Ok", "dns_tcp", "h2_handshake"} :
         /\ connResult' = result
         /\ pc' = AndThen(result, "connected")
         /\ stderr' = IF result = "Ok" THEN stderr
                      ELSE Append(stderr, "HTTP/2 connection failed")
    /\ exitCode' = IF pc' = "done" THEN 0 ELSE Running
    /\ outcome' = IF pc' = "done" THEN "ConnectionFailed" ELSE "running"
    /\ UNCHANGED <<args, lookups, validated, addrs, socket_addr, madeService,
                   connAttempts, clientReady, calls, rpcResult, response, stdout>>
    /\ TwinShared

\* lines 119-129: wrap the connection with the origin, wait for readiness
OriginReady ==
    /\ pc = "connected"
    /\ IF ~build_origin(ParseUri(uri))
       THEN /\ Panic("panicked at unwrap: BuilderError")
            /\ UNCHANGED clientReady
       ELSE \E result \in {"Ok", "closed"} :
              /\ clientReady' = (result = "Ok")
              /\ pc' = AndThen(result, "ready")
              /\ stderr' = IF result = "Ok" THEN stderr
                           ELSE Append(stderr, "client closed")
              /\ exitCode' = IF pc' = "done" THEN 0 ELSE Running
              /\ outcome' = IF pc' = "done" THEN "ConnectionFailed" ELSE "running"
    /\ UNCHANGED <<args, lookups, validated, addrs, socket_addr, madeService,
                   connAttempts, connResult, calls, rpcResult, response, stdout>>
    /\ TwinShared

\* lines 141-150, 165-174, 181-183: the arm's closure builds the request and
\* calls the facade
IssueCall ==
    /\ pc = "ready"
    /\ calls' = Append(calls, BuildRequest(subcommand, socket_addr))
    /\ pc' = "calling"
    /\ UNCHANGED <<args, lookups, validated, addrs, socket_addr, madeService,
                   connAttempts, connResult, clientReady, rpcResult, response,
                   stdout,
                   stderr, exitCode, outcome>>
    /\ twin' = IF subcommand = "connect" THEN DisconnectIssue(twin) ELSE twin

\* println! of lines 187-213
Render(resp) ==
    <<[kind |-> "info",
       implementation |-> resp.implementation,
       version |-> ToString(resp.protocol_version),
       best |-> Hex(resp.best_block_hash),
       genesis |-> Hex(resp.genesis_block_hash)]>>

\* lines 151-152, 175-176, 184-215: the round trip settles
RpcSettle ==
    /\ pc = "calling"
    /\ \E result \in {"Ok", "status"}, resp \in Responses :
         /\ rpcResult' = result
         /\ response' = IF result = "Ok" /\ subcommand = "getinfo"
                        THEN Some(resp) ELSE None
         /\ stdout' = IF result = "Ok" /\ subcommand = "getinfo"
                      THEN stdout \o Render(resp) ELSE stdout
         /\ stderr' = IF result = "Ok" THEN stderr ELSE stderr \o RpcErrMsg(subcommand)
         /\ Return(IF result = "Ok" THEN "Success" ELSE "RpcCallFailed")
    /\ UNCHANGED <<args, lookups, validated, addrs, socket_addr, madeService,
                   connAttempts, connResult, clientReady, calls>>
    /\ twin' = IF subcommand = "connect" THEN DisconnectSettle(twin, rpcResult') ELSE twin

Next ==
    \/ GetMatches
    \/ Completions
    \/ TryFromUri
    \/ MakeService
    \/ MatchConnect
    \/ MatchDisconnect
    \/ MatchGetInfo
    \/ MatchNone
    \/ RunConnect
    \/ ConnectSettle
    \/ OriginReady
    \/ IssueCall
    \/ RpcSettle

Spec == Init /\ [][Next]_vars

\* main runs on, and tokio::run drives the future, as long as a step is
\* possible; the connection attempt and the round trip settle
FairSpec == Spec /\ WF_vars(Next)

TypeOK ==
    /\ pc \in {"get_matches", "parsed", "make_client", "match", "run",
               "connecting", "connected", "ready", "calling", "done"}
    /\ exitCode \in {Running, 0, 1, 101}
    /\ (pc = "done") = (exitCode # Running)
    /\ (pc = "done") = (outcome # "running")

(* ---------------------------------------------------------- properties *)
Done == pc = "done"

\* the four failure kinds of the error taxonomy
FailureKinds == {"InvalidEndpoint", "UnresolvableAddress", "ConnectionFailed", "RpcCallFailed"}
Failed == outcome \in FailureKinds

NoIpv4(as) == \A i \in 1..Len(as) : as[i].fam # "v4"

\* C1: the exit status is non-zero when the invocation failed (invalid
\* endpoint, resolution, connection or RPC failure) and zero when the
\* requested operation succeeded.
C1_ExitStatus ==
    Done => /\ (Failed => exitCode # 0)
            /\ (outcome = "Success" => exitCode = 0)

\* C2: for connect and disconnect a connection attempt is made only after
\* the peer address resolved to an IPv4 address; when the address is
\* malformed, unresolvable or IPv6-only no attempt is ever made.
C2_ConnectAfterResolution ==
    HasAddress =>
      /\ connAttempts > 0 =>
           /\ validated # None /\ validated[1].ok
           /\ addrs # None /\ addrs[1].ok
           /\ socket_addr # None /\ socket_addr[1].fam = "v4"
           /\ \E i \in 1..Len(addrs[1].addrs) : addrs[1].addrs[i] = socket_addr[1]
      /\ \/ addressArg \in {"peer.example", "[::1]:4225"}
         \/ validated # None /\ (~validated[1].ok \/ validated[1].addrs = <<>>)
         \/ addrs # None /\ (~addrs[1].ok \/ NoIpv4(addrs[1].addrs))
         => connAttempts = 0 /\ connResult = ""

\* an IPv6-only resolution has ended the run with the future built but
\* never polled
C2_Witness ==
    /\ Done /\ HasAddress /\ madeService
    /\ addrs # None /\ addrs[1].ok /\ addrs[1].addrs # <<>> /\ NoIpv4(addrs[1].addrs)
    /\ connAttempts = 0

\* C3: an invalid endpoint URI is rejected by argument validation before
\* any network I/O: no name resolution of the peer address, no connection
\* attempt, and main never runs.
C3_InvalidUriNoIO ==
    ~ParseUri(uri).ok =>
      /\ lookups = 0
      /\ connAttempts = 0
      /\ pc \in {"get_matches", "done"}
      /\ Done => exitCode = 1 /\ outcome \in {"InvalidEndpoint", "UnresolvableAddress", "UsageError"}

\* C4: an RPC call is issued only after the transport connection was
\* established and the client reported ready; when either fails no call is
\* ever issued.
C4_CallAfterReady ==
    /\ calls # <<>> => connAttempts >= 1 /\ connResult = "Ok" /\ clientReady
    /\ connResult \in {"dns_tcp", "h2_handshake"} => calls = <<>> /\ rpcResult = ""
    /\ Done /\ ~clientReady => calls = <<>> /\ rpcResult = ""

\* the call has been issued on a ready client
C4_Witness == pc = "calling" /\ Len(calls) = 1 /\ clientReady /\ connResult = "Ok"

\* C5: at most one call is issued, exactly one once the client is ready,
\* its method is the one of the subcommand chosen at startup, and the
\* subcommand match is entered once and never again.
C5_ExactlyOneCall ==
    /\ [](/\ Len(calls) <= 1
          /\ clientReady /\ pc \in {"calling", "done"} => Len(calls) = 1
          /\ \A i \in 1..Len(calls) :
               \/ subcommand = "getinfo" /\ calls[i].method = "GetInfo"
               \/ subcommand = "connect" /\ calls[i].method = "ConnectPeer"
               \/ subcommand = "disconnect" /\ calls[i].method = "DisconnectPeer")
    /\ [][(subcommand' = subcommand)
            /\ (pc' = "match" => pc = "make_client")
            /\ (Len(calls') >= Len(calls))]_vars

\* a disconnect run has ended after its one DisconnectPeer call
C5_Witness ==
    /\ Done /\ subcommand = "disconnect" /\ clientReady
    /\ Len(calls) = 1 /\ calls[1].method = "DisconnectPeer"

\* C6: at most one connection attempt is made, and once the connection or
\* the call has failed neither a connection nor a call is attempted again.
C6_NoRetry ==
    /\ [](connAttempts <= 1)
    /\ [](connResult \in {"dns_tcp", "h2_handshake"} \/ rpcResult = "status" => Done)
    /\ [][(connResult \in {"dns_tcp", "h2_handshake"} \/ rpcResult = "status" \/ Failed)
            => (connAttempts' = connAttempts /\ calls' = calls /\ pc' = "done")]_vars

\* the one attempt failed and the run has ended
C6_Witness == Done /\ connAttempts = 1 /\ connResult = "dns_tcp" /\ outcome = "ConnectionFailed"

Rendered == \E i \in 1..Len(stdout) : stdout[i].kind = "info"

\* C7: the result is rendered if and only if the single requested RPC
\* completed successfully; a failed run renders nothing.
C7_RenderedIffSuccess ==
    Done => /\ Rendered <=> rpcResult = "Ok"
            /\ Failed => ~Rendered

\* the message each failure kind prints
MessagesOf(kind) ==
    CASE kind = "InvalidEndpoint" -> {"Invalid URI"}
      [] kind = "UnresolvableAddress" ->
           {"cannot parse address", "Could not resolve address", "Could not resolve to ipv4"}
      [] kind = "ConnectionFailed" ->
           {"Could not connect to", "HTTP/2 connection failed", "client closed"}
      [] kind = "RpcCallFailed" -> {"Error retrieving information", "Could not connect to peer"}
      [] OTHER -> {}

\* C8: a failed invocation has exactly one message on the error stream, the
\* one of the failure that ended it; a successful invocation has none; no
\* message is printed while the invocation is still running.
C8_OneMessage ==
    /\ Len(stderr) <= 1
    /\ Done /\ Failed => Len(stderr) = 1 /\ stderr[1] \in MessagesOf(outcome)
    /\ Done /\ outcome = "Panic" => Len(stderr) = 1
    /\ Done /\ outcome = "Success" => stderr = <<>>
    /\ ~Done => stderr = <<>>

\* a failed round trip has ended the run with its one message
C8_Witness == Done /\ outcome = "RpcCallFailed" /\ Len(stderr) = 1 /\ rpcResult = "status"

\* the terminal state every connection failure ends in
ConnectionFailedEnd ==
    /\ outcome = "ConnectionFailed"
    /\ exitCode = 0
    /\ Len(stderr) = 1 /\ stderr[1] \in MessagesOf("ConnectionFailed")
    /\ stdout = <<>> /\ calls = <<>> /\ rpcResult = "" /\ ~clientReady
    /\ connAttempts <= 1

\* a uri the origin adapter cannot be built from reached main
OriginUnbuildable ==
    /\ ParseUri(uri).ok /\ (ParseUri(uri).scheme = "" \/ ParseUri(uri).authority = "")
    /\ exitCode # 1 /\ ~completions

C10_FirstIpv4 ==
    addrs # None /\ addrs[1].ok =>
      LET as == addrs[1].addrs
      IN /\ ~NoIpv4(as) =>
              /\ socket_addr # None
              /\ \E i \in 1..Len(as) :
                   /\ as[i] = socket_addr[1] /\ as[i].fam = "v4"
                   /\ \A j \in 1..(i - 1) : as[j].fam # "v4"
              /\ outcome # "UnresolvableAddress"
         /\ NoIpv4(as) =>
              /\ socket_addr = None
              /\ Done /\ outcome = "UnresolvableAddress"
              /\ stderr = <<"Could not resolve to ipv4">>

\* an IPv6 entry was skipped and the IPv4 entry after it was returned
C10_Witness ==
    /\ addrs # None /\ addrs[1].ok /\ Len(addrs[1].addrs) = 2
    /\ addrs[1].addrs[1].fam = "v6"
    /\ socket_addr = Some(addrs[1].addrs[2])

\* C11: the request of connect and disconnect carries the resolved IPv4
\* address as dotted decimal and the resolved port unchanged, a value of
\* 0..65535; "127.0.0.1:4225" gives {ip: "127.0.0.1", port: 4225}.
C11_PeerPayload ==
    \A i \in 1..Len(calls) :
      HasAddress =>
        /\ socket_addr # None /\ socket_addr[1].fam = "v4"
        /\ Len(calls[i].peer) = 1
        /\ calls[i].peer[1].port = socket_addr[1].port
        /\ calls[i].peer[1].port \in 0..65535
        /\ socket_addr[1].ip = <<127, 0, 0, 1>> => calls[i].peer[1].ip = "127.0.0.1"
        /\ socket_addr[1].ip = <<10, 0, 0, 2>> => calls[i].peer[1].ip = "10.0.0.2"
        /\ addressArg = "127.0.0.1:4225" =>
             calls[i].peer[1] = [ip |-> "127.0.0.1", port |-> 4225]

\* a request carrying the largest port has been issued
C11_Witness ==
    /\ HasAddress /\ Len(calls) = 1
    /\ calls[1].peer = Some([ip |-> "10.0.0.2", port |-> 65535])

HexDigits == {"0", "1", "2", "3", "4", "5", "6", "7", "8", "9", "a", "b", "c", "d", "e", "f"}

DigitValue(c) ==
    CASE c = "0" -> 0 [] c = "1" -> 1 [] c = "2" -> 2 [] c = "3" -> 3
      [] c = "4" -> 4 [] c = "5" -> 5 [] c = "6" -> 6 [] c = "7" -> 7
      [] c = "8" -> 8 [] c = "9" -> 9 [] c = "a" -> 10 [] c = "b" -> 11
      [] c = "c" -> 12 [] c = "d" -> 13 [] c = "e" -> 14 [] c = "f" -> 15

\* the two lowercase hexadecimal digits whose value is b
TwoDigits(b) ==
    LET p == CHOOSE p \in HexDigits \X HexDigits :
                 16 * DigitValue(p[1]) + DigitValue(p[2]) = b
    IN p[1] \o p[2]

\* s is the two digits of each byte of bytes from position i on, in order
RECURSIVE IsHexOf(_, _, _, _)
IsHexOf(s, bytes, i, prefix) ==
    IF i > Len(bytes) THEN s = prefix
    ELSE IsHexOf(s, bytes, i + 1, prefix \o TwoDigits(bytes[i]))

\* C12: a hash is rendered as two lowercase hexadecimal digits per byte,
\* zero padded, in array order with no separator, so twice as long as the
\* hash; [0x0a, 0xff] is rendered as "0aff".
C12_HexRendering ==
    \A i \in 1..Len(stdout) :
      stdout[i].kind = "info" =>
        /\ response # None
        /\ Len(stdout[i].best) = 2 * Len(response[1].best_block_hash)
        /\ Len(stdout[i].genesis) = 2 * Len(response[1].genesis_block_hash)
        /\ IsHexOf(stdout[i].best, response[1].best_block_hash, 1, "")
        /\ IsHexOf(stdout[i].genesis, response[1].genesis_block_hash, 1, "")
        /\ response[1].best_block_hash = <<10, 255>> => stdout[i].best = "0aff"

\* the hash [0x0a, 0xff] has been rendered
C12_Witness ==
    /\ Len(stdout) = 1 /\ stdout[1].kind = "info" /\ stdout[1].best = "0aff"
    /\ response # None /\ response[1].best_block_hash = <<10, 255>>

\* C13: a connect or disconnect invocation that reached the RPC step has
\* printed a success or a failure outcome when it ends.
C13_PrintsOutcome ==
    Done /\ HasAddress /\ rpcResult # "" => Len(stdout) + Len(stderr) >= 1

\* C14: when the connection attempt and the round trip settle, every
\* invocation terminates and stays terminated: the pipeline runs to
\* completion or to its first failure and nothing runs after the exit.
C14_Terminates == <>[](Done /\ exitCode # Running)

\* the whole pipeline ran and the process has exited
C14_Witness ==
    /\ Done /\ outcome = "Success" /\ exitCode = 0
    /\ connAttempts = 1 /\ Len(calls) = 1 /\ rpcResult = "Ok"

\* C15: the peer address is resolved exactly once in a run, so what
\* is_address accepted and what the request is built from are the same
\* resolution result.
C15_SingleResolution ==
    HasAddress =>
      /\ lookups <= 1
      /\ validated # None /\ addrs # None => validated = addrs

\* C17: no invocation ends in an abnormal abort.
C17_NoPanic == outcome # "Panic" /\ exitCode # 101

\* C18: without a subcommand, or with completions requested, the future is
\* never driven: no connection attempt, no call, nothing rendered, and main
\* returns without entering tokio::run.
C18_NothingDriven ==
    subcommand = "" \/ completions =>
      /\ connAttempts = 0 /\ connResult = "" /\ ~clientReady
      /\ calls = <<>> /\ rpcResult = ""
      /\ ~Rendered
      /\ pc \in {"get_matches", "parsed", "make_client", "match", "done"}
      /\ completions => ~madeService /\ pc \in {"get_matches", "parsed", "done"}
      /\ Done => exitCode \in {0, 1}

\* no subcommand: the future was built, dropped unpolled, and main returned
C18_Witness ==
    /\ Done /\ subcommand = "" /\ ~completions /\ madeService
    /\ outcome = "NoOp" /\ connAttempts = 0

\* C16: on the same address, resolution results and connection/RPC
\* outcomes the disconnect arm takes the same steps as the connect arm,
\* builds the same peer payload and ends in the same outcome; only the
\* method called differs.
C16_DisconnectLikeConnect ==
    subcommand = "connect" =>
      /\ twin.pc = pc
      /\ twin.socket_addr = socket_addr
      /\ twin.stdout = stdout /\ twin.stderr = stderr
      /\ twin.exitCode = exitCode /\ twin.outcome = outcome
      /\ Len(twin.calls) = Len(calls)
      /\ \A i \in 1..Len(calls) :
           /\ twin.calls[i].peer = calls[i].peer
           /\ calls[i].method = "ConnectPeer"
           /\ twin.calls[i].method = "DisconnectPeer"

\* both arms issued their call with a port other than the default and failed
C16_Witness ==
    /\ Done /\ subcommand = "connect" /\ outcome = "RpcCallFailed"
    /\ Len(twin.calls) = 1 /\ twin.calls[1].peer[1].port = 65535
    /\ twin.outcome = "RpcCallFailed"
====
